---- MODULE Spec2Model ----
(***************************************************************************)
(* A model of oled_stats.py: the metrics reader (get_stats and             *)
(* get_ip_address), the render loop of main with its rotation timer, and   *)
(* the bootstrap / shutdown code of the __main__ block.                    *)
(*                                                                         *)
(* Text is modelled as a sequence of one-character strings, so that        *)
(* strip(), isdigit(), int() and the f-string formats are computed         *)
(* character by character.  Two characters outside ASCII are written as   *)
(* tokens: "^2" is U+00B2 (SUPERSCRIPT TWO) and "U+00C2", "U+00B0" are the *)
(* two characters the source file holds before the "C" of the unit.        *)
(***************************************************************************)
EXTENDS Integers, Sequences, FiniteSets, TLC

VARIABLES
    pc,                       \* where the process is
    now,                      \* the wall clock, time.time(), in seconds
    last_rotation_time,       \* global, line 36
    display_disk_vs_ip_mode,  \* global, line 37
    current_time,             \* local of main, line 115
    stats,                    \* local of main, line 121
    soctemp,                  \* the temperature pseudo-file seen by the last get_stats
    net,                      \* the interfaces' answers seen by the last get_stats
    queried,                  \* the interfaces the last get_stats queried, in order
    frame,                    \* the image the display shows
    flips,                    \* history: how often the mode was toggled
    sampled,                  \* history: get_stats was called at least once
    clear_attempts,           \* history: runs of the shutdown handler's try block
    exit_reason,              \* why the process left main, "none" while it has not
    printed                   \* the diagnostics printed so far

vars == <<pc, now, last_rotation_time, display_disk_vs_ip_mode, current_time,
          stats, soctemp, net, queried, frame, flips, sampled, clear_attempts,
          exit_reason, printed>>

----------------------------------------------------------------------------
(* Configuration and bounds *)

UPDATE_INTERVAL == 2
ROTATION_INTERVAL == 5
DISK == 0
IP == 1

\* The clock stops the model at MaxTime; a step other than the sleep takes up
\* to MaxDelay seconds and the sleep oversleeps by up to MaxDelay seconds.
MaxTime == 12
MaxDelay == 1
\* The longest temperature file content of TempSpec.
MaxLen == 3

----------------------------------------------------------------------------
(* Text *)

AsciiDigits == {"0", "1", "2", "3", "4", "5", "6", "7", "8", "9"}

\* str.isdigit() also accepts digits that int() refuses, U+00B2 among them.
PyDigitChars == AsciiDigits \cup {"^2"}

Whitespace == {" ", "\n", "\t"}

DigitChar(d) == <<"0", "1", "2", "3", "4", "5", "6", "7", "8", "9">>[d + 1]

DigitVal(c) == CHOOSE d \in 0..9 : DigitChar(d) = c

RECURSIVE Dec(_)
\* The decimal digits of a natural number.
Dec(n) == IF n < 10 THEN <<DigitChar(n)>> ELSE Dec(n \div 10) \o <<DigitChar(n % 10)>>

RECURSIVE LStrip(_)
LStrip(s) == IF s # <<>> /\ Head(s) \in Whitespace THEN LStrip(Tail(s)) ELSE s

RECURSIVE RStrip(_)
RStrip(s) ==
    IF s # <<>> /\ s[Len(s)] \in Whitespace THEN RStrip(SubSeq(s, 1, Len(s) - 1)) ELSE s

\* str.strip()
Strip(s) == RStrip(LStrip(s))

\* str.isdigit(): not empty, and every character a digit.
IsDigit(s) == s # <<>> /\ \A i \in 1..Len(s) : s[i] \in PyDigitChars

\* int(s) of a string isdigit() accepted raises ValueError unless every
\* character is a decimal digit.
IntRaises(s) == \E i \in 1..Len(s) : s[i] \notin AsciiDigits

RECURSIVE IntOf(_)
IntOf(s) == IF s = <<>> THEN 0 ELSE 10 * IntOf(SubSeq(s, 1, Len(s) - 1)) + DigitVal(s[Len(s)])

\* Round n/d to the nearest integer, a tie to the even one: what the formats
\* .0f and .1f do to a value the float holds exactly.
RoundHalfEven(n, d) ==
    LET q == n \div d
        r == n % d
    IN  IF 2 * r < d THEN q
        ELSE IF 2 * r > d THEN q + 1
        ELSE IF q % 2 = 0 THEN q ELSE q + 1

\* A float is a pair <<numerator, denominator>>.
\* f"{x:.1f}" of a value with one decimal, and f"{x:.0f}".
Fmt1(x) ==
    LET t == RoundHalfEven(10 * x[1], x[2])
    IN  Dec(t \div 10) \o <<".">> \o <<DigitChar(t % 10)>>

Fmt0(x) == Dec(RoundHalfEven(x[1], x[2]))

\* n / 1000.0 is the double nearest to n/1000, which is not n/1000 when
\* n = 100k + 50: the format then rounds to the side the double lies on.
\* The k below 100 whose double lies above (n < 10000, which MaxLen keeps).
HalfRoundsUp ==
    {0, 4, 5, 6, 7, 10, 13, 15, 17, 18, 23, 24, 27, 28, 29, 33, 34, 37, 38, 39,
     41, 44, 46, 47, 49, 51, 54, 56, 57, 59, 61, 64, 66, 67, 69, 71, 74, 76, 77,
     79, 80, 81, 85, 86, 87, 90, 91, 95, 96, 97}

\* The tenths of a degree f"{n / 1000.0:.1f}" shows for n millidegrees.
MilliToTenths(n) ==
    LET k == n \div 100
        r == n % 100
    IN  IF r < 50 THEN k
        ELSE IF r > 50 THEN k + 1
        ELSE IF k \in HalfRoundsUp THEN k + 1 ELSE k

\* The unit as the source file spells it, line 76.
TempUnit == <<"U+00C2", "U+00B0", "C">>

FormatTemp(n) ==
    LET t == MilliToTenths(n)
    IN  Dec(t \div 10) \o <<".">> \o <<DigitChar(t % 10)>> \o TempUnit

NA == <<"N", "/", "A">>
Err == <<"E", "r", "r">>
ReadErr == <<"R", "e", "a", "d", "E", "r", "r">>
NoFile == <<"N", "o", "F", "i", "l", "e">>

----------------------------------------------------------------------------
(* get_stats: the temperature *)

\* A state of the pseudo-file: whether os.path.exists finds it, what open()
\* and read() do ("ok" or the exception raised), and its content.
File(exists, io, content) == [exists |-> exists, io |-> io, content |-> content]

\* ReadTemperature without the else branch of line 82: temp keeps its initial "N/A".
ReadTemperature_KeepsInitial(f) ==
    IF f.exists
    THEN IF f.io # "ok"
         THEN ReadErr
         ELSE LET raw_temp == Strip(f.content)
              IN  IF IsDigit(raw_temp)
                  THEN IF IntRaises(raw_temp) THEN ReadErr
                       ELSE FormatTemp(IntOf(raw_temp))
                  ELSE Err
    ELSE NA

\* Lines 68-83.
ReadTemperature(f) ==
    IF f.exists
    THEN IF f.io # "ok"
         THEN ReadErr
         ELSE LET raw_temp == Strip(f.content)
              IN  IF IsDigit(raw_temp)
                  THEN IF IntRaises(raw_temp) THEN ReadErr
                       ELSE FormatTemp(IntOf(raw_temp))
                  ELSE Err
    ELSE NoFile

\* Whether the read printed "Error reading soctemp", line 81.
ReadTemperaturePrints(f) ==
    f.exists /\ (f.io # "ok" \/ (IsDigit(Strip(f.content)) /\ IntRaises(Strip(f.content))))

----------------------------------------------------------------------------
(* get_ip_address and get_stats *)

PRIMARY == "end1"
FALLBACK == "wlan0"

\* socket.inet_ntoa of the four bytes the ioctl returns.
InetNtoa(b) == Dec(b[1]) \o <<".">> \o Dec(b[2]) \o <<".">> \o Dec(b[3]) \o <<".">> \o Dec(b[4])

\* What an interface answers to SIOCGIFADDR: its address, or an IOError.
Answer(ok, addr) == [ok |-> ok, addr |-> addr]

\* Lines 41-53; n maps each interface name to its answer.
get_ip_address(ifname, n) ==
    IF n[ifname].ok THEN InetNtoa(n[ifname].addr) ELSE NA

\* NeedsFallback with the test of line 86 dropped: wlan0 is always queried.
NeedsFallback_Always(ip_address) == TRUE

\* Line 86.
NeedsFallback(ip_address) == ip_address = NA

\* Lines 85-87.
ResolveIp(n) ==
    LET ip_address == get_ip_address(PRIMARY, n)
    IN  IF NeedsFallback(ip_address) THEN get_ip_address(FALLBACK, n) ELSE ip_address

\* The interfaces lines 85-87 query, in order.
QueriedInterfaces(n) ==
    IF NeedsFallback(get_ip_address(PRIMARY, n)) THEN <<PRIMARY, FALLBACK>> ELSE <<PRIMARY>>

\* What psutil returns: the percentages have one decimal (kept in tenths),
\* the memory sizes are kept in KiB (the code's bytes / 1024).
Reading(cpu, total, used, disk) ==
    [raises |-> FALSE, cpu_x10 |-> cpu, mem_total_kib |-> total,
     mem_used_kib |-> used, disk_x10 |-> disk]

PsutilRaises == [raises |-> TRUE]

\* Lines 89-96 on what lines 59-87 computed.
get_stats(r, f, n) ==
    [cpu_percent  |-> <<r.cpu_x10, 10>>,
     mem_total_mb |-> <<r.mem_total_kib, 1024>>,
     mem_used_mb  |-> <<r.mem_used_kib, 1024>>,
     disk_percent |-> <<r.disk_x10, 10>>,
     ip_address   |-> ResolveIp(n),
     temperature  |-> ReadTemperature(f)]

----------------------------------------------------------------------------
(* The frame, lines 130-144 *)

CpuLine(s) == <<"C", "P", "U", ":", " ">> \o Fmt1(s.cpu_percent) \o <<"%">>

RamLine(s) ==
    <<"R", "A", "M", ":", " ">> \o Fmt0(s.mem_used_mb) \o <<"/">>
        \o Fmt0(s.mem_total_mb) \o <<"M", "B">>

TmpLine(s) == <<"T", "M", "P", ":", " ">> \o s.temperature

DskLine(s) == <<"D", "S", "K", ":", " ">> \o Fmt1(s.disk_percent) \o <<"%">>

IpLine(s) == <<"I", "P", ":", " ">> \o s.ip_address

\* RotatedLine with the branches of lines 141-144 exchanged.
RotatedLine_Swapped(s, mode) == IF mode = DISK THEN IpLine(s) ELSE DskLine(s)

\* Lines 141-144.
RotatedLine(s, mode) == IF mode = DISK THEN DskLine(s) ELSE IpLine(s)

\* What the canvas flushes to the display when its block ends.
Render(s, mode) == <<CpuLine(s), RamLine(s), TmpLine(s), RotatedLine(s, mode)>>

BlankFrame == <<>>

----------------------------------------------------------------------------
(* The environment *)

\* The contents of the temperature file: every text of up to MaxLen characters.
TempAlphabet == {"0", "4", "5", "-", "x", "\n", "^2"}

RECURSIVE TextsOfLen(_)
TextsOfLen(k) ==
    IF k = 0 THEN {<<>>}
    ELSE {t \o <<c>> : t \in TextsOfLen(k - 1), c \in TempAlphabet}

Texts == UNION {TextsOfLen(k) : k \in 0..MaxLen}

FailingFiles ==
    {File(FALSE, "ok", <<>>),
     File(TRUE, "PermissionError", <<>>),
     File(TRUE, "FileNotFoundError", <<>>)}

AllFiles == FailingFiles \cup {File(TRUE, "ok", t) : t \in Texts}

\* The files the render loop meets.
LoopFiles ==
    FailingFiles \cup {File(TRUE, "ok", <<"4", "5", "0", "0", "0", "\n">>),
                       File(TRUE, "ok", <<>>)}

NoAnswer == Answer(FALSE, <<0, 0, 0, 0>>)

Nets ==
    {[i \in {PRIMARY, FALLBACK} |-> IF i = PRIMARY THEN a ELSE b] :
        a \in {NoAnswer, Answer(TRUE, <<192, 168, 1, 10>>)},
        b \in {NoAnswer, Answer(TRUE, <<10, 0, 0, 5>>)}}

Readings ==
    {Reading(234, 2097152, 524288, 612), Reading(1000, 2097152, 525824, 75)}

\* Nothing sampled: the values of main's locals outside an iteration.
NoStats == [none |-> TRUE]
NoFileSeen == File(FALSE, "unseen", <<>>)
NoNet == [i \in {PRIMARY, FALLBACK} |-> NoAnswer]

\* The clock readings after a step that began at t and took up to MaxDelay.
After(t) == {u \in t..(t + MaxDelay) : u <= MaxTime}

----------------------------------------------------------------------------
(* The process *)

LoopPcs == {"check", "sample", "draw", "sleep"}

Init ==
    /\ pc = "init"
    /\ now = 0
    /\ last_rotation_time = 0
    /\ display_disk_vs_ip_mode = DISK
    /\ current_time = 0
    /\ stats = NoStats
    /\ soctemp = NoFileSeen
    /\ net = NoNet
    /\ queried = <<>>
    /\ frame = BlankFrame
    /\ flips = 0
    /\ sampled = FALSE
    /\ clear_attempts = 0
    /\ exit_reason = "none"
    /\ printed = {}

\* Lines 104-107: the bus and the display are constructed.
InitOk ==
    /\ pc = "init"
    /\ pc' = "check"
    /\ now' \in After(now)
    /\ UNCHANGED <<last_rotation_time, display_disk_vs_ip_mode, current_time, stats,
                   soctemp, net, queried, frame, flips, sampled, clear_attempts,
                   exit_reason, printed>>

\* InitFail without the return of line 111: main goes on into the loop.
InitFail_NoReturn ==
    /\ pc = "init"
    /\ pc' = "check"
    /\ exit_reason' = "init_failure"
    /\ printed' = printed \cup {"Error initializing OLED"}
    /\ now' \in After(now)
    /\ UNCHANGED <<last_rotation_time, display_disk_vs_ip_mode, current_time, stats,
                   soctemp, net, queried, frame, flips, sampled, clear_attempts>>

\* Lines 108-111: the construction raises, main prints and returns.
InitFail ==
    /\ pc = "init"
    /\ pc' = "done"
    /\ exit_reason' = "init_failure"
    /\ printed' = printed \cup {"Error initializing OLED"}
    /\ now' \in After(now)
    /\ UNCHANGED <<last_rotation_time, display_disk_vs_ip_mode, current_time, stats,
                   soctemp, net, queried, frame, flips, sampled, clear_attempts>>

\* ShouldRotate comparing with the wrong interval.
ShouldRotate_Early(t, last) == (t - last) >= UPDATE_INTERVAL

\* Line 117.
ShouldRotate(t, last) == (t - last) >= ROTATION_INTERVAL

\* RotationCheck without line 119: the timestamp is never reset.
RotationCheck_NoReset ==
    /\ pc = "check"
    /\ pc' = "sample"
    /\ current_time' = now
    /\ IF ShouldRotate(now, last_rotation_time)
       THEN /\ display_disk_vs_ip_mode' = 1 - display_disk_vs_ip_mode
            /\ flips' = flips + 1
            /\ UNCHANGED last_rotation_time
       ELSE UNCHANGED <<display_disk_vs_ip_mode, last_rotation_time, flips>>
    /\ UNCHANGED <<now, stats, soctemp, net, queried, frame, sampled, clear_attempts,
                   exit_reason, printed>>

\* Lines 115-119.
RotationCheck ==
    /\ pc = "check"
    /\ pc' = "sample"
    /\ current_time' = now
    /\ IF ShouldRotate(now, last_rotation_time)
       THEN /\ display_disk_vs_ip_mode' = 1 - display_disk_vs_ip_mode
            /\ last_rotation_time' = now
            /\ flips' = flips + 1
       ELSE UNCHANGED <<display_disk_vs_ip_mode, last_rotation_time, flips>>
    /\ UNCHANGED <<now, stats, soctemp, net, queried, frame, sampled, clear_attempts,
                   exit_reason, printed>>

\* SampleWith without the try of lines 71-81: a failing open or read of the
\* temperature file leaves get_stats as an exception.
SampleWith_TempRaises(r, f, n, t) ==
    /\ pc = "sample"
    /\ now' = t
    /\ sampled' = TRUE
    /\ IF r.raises \/ (f.exists /\ f.io # "ok")
       THEN /\ pc' = "done"
            /\ exit_reason' = IF r.raises THEN "psutil_error" ELSE "soctemp_error"
            /\ printed' = printed \cup {"An unexpected error occurred"}
            /\ UNCHANGED <<stats, soctemp, net, queried>>
       ELSE /\ pc' = "draw"
            /\ stats' = get_stats(r, f, n)
            /\ soctemp' = f
            /\ net' = n
            /\ queried' = QueriedInterfaces(n)
            /\ printed' = IF ReadTemperaturePrints(f)
                          THEN printed \cup {"Error reading soctemp"}
                          ELSE printed
            /\ UNCHANGED exit_reason
    /\ UNCHANGED <<last_rotation_time, display_disk_vs_ip_mode, current_time, frame,
                   flips, clear_attempts>>

\* Line 121, get_stats on what psutil (r), the temperature file (f) and the
\* interfaces (n) give, returning at time t.  A psutil call that raises is
\* caught by nothing before line 160.
SampleWith(r, f, n, t) ==
    /\ pc = "sample"
    /\ now' = t
    /\ sampled' = TRUE
    /\ IF r.raises
       THEN /\ pc' = "done"
            /\ exit_reason' = "psutil_error"
            /\ printed' = printed \cup {"An unexpected error occurred"}
            /\ UNCHANGED <<stats, soctemp, net, queried>>
       ELSE /\ pc' = "draw"
            /\ stats' = get_stats(r, f, n)
            /\ soctemp' = f
            /\ net' = n
            /\ queried' = QueriedInterfaces(n)
            /\ printed' = IF ReadTemperaturePrints(f)
                          THEN printed \cup {"Error reading soctemp"}
                          ELSE printed
            /\ UNCHANGED exit_reason
    /\ UNCHANGED <<last_rotation_time, display_disk_vs_ip_mode, current_time, frame,
                   flips, clear_attempts>>

Sample ==
    \E r \in Readings \cup {PsutilRaises}, f \in LoopFiles, n \in Nets, t \in After(now) :
        SampleWith(r, f, n, t)

\* Lines 130-144: the canvas block ends and the image is flushed (ok), or a
\* draw call or the bus write raises, which nothing catches before line 160.
DrawWith(ok, t) ==
    /\ pc = "draw"
    /\ now' = t
    /\ IF ok
       THEN /\ pc' = "sleep"
            /\ frame' = Render(stats, display_disk_vs_ip_mode)
            /\ UNCHANGED <<exit_reason, printed>>
       ELSE /\ pc' = "done"
            /\ exit_reason' = "display_error"
            /\ printed' = printed \cup {"An unexpected error occurred"}
            /\ UNCHANGED frame
    /\ UNCHANGED <<last_rotation_time, display_disk_vs_ip_mode, current_time, stats,
                   soctemp, net, queried, flips, sampled, clear_attempts>>

Draw == \E ok \in BOOLEAN, t \in After(now) : DrawWith(ok, t)

\* Line 146; the snapshot is dead once the next iteration begins.
Sleep ==
    /\ pc = "sleep"
    /\ pc' = "check"
    /\ now' \in After(now + UPDATE_INTERVAL)
    /\ stats' = NoStats
    /\ soctemp' = NoFileSeen
    /\ net' = NoNet
    /\ queried' = <<>>
    /\ UNCHANGED <<last_rotation_time, display_disk_vs_ip_mode, current_time, frame,
                   flips, sampled, clear_attempts, exit_reason, printed>>

\* Lines 151-152: a KeyboardInterrupt raised inside main() reaches the handler;
\* no except clause of main, get_stats or get_ip_address catches it.
Interrupt ==
    /\ pc \in {"init"} \cup LoopPcs
    /\ pc' = "clear"
    /\ exit_reason' = "interrupt"
    /\ printed' = printed \cup {"Exiting stats display."}
    /\ UNCHANGED <<now, last_rotation_time, display_disk_vs_ip_mode, current_time,
                   stats, soctemp, net, queried, frame, flips, sampled, clear_attempts>>

\* ClearWith trying again after a failure.
ClearWith_Retry(ok) ==
    /\ pc = "clear"
    /\ pc' = IF ok THEN "done" ELSE "clear"
    /\ clear_attempts' = clear_attempts + 1
    /\ IF ok
       THEN frame' = BlankFrame /\ UNCHANGED printed
       ELSE printed' = printed \cup {"Error clearing display on exit"} /\ UNCHANGED frame
    /\ UNCHANGED <<now, last_rotation_time, display_disk_vs_ip_mode, current_time,
                   stats, soctemp, net, queried, flips, sampled, exit_reason>>

\* Lines 154-159: the bus and the display are constructed again and the
\* display is cleared (ok), or one of the three raises and it is printed.
ClearWith(ok) ==
    /\ pc = "clear"
    /\ pc' = "done"
    /\ clear_attempts' = clear_attempts + 1
    /\ IF ok
       THEN frame' = BlankFrame /\ UNCHANGED printed
       ELSE printed' = printed \cup {"Error clearing display on exit"} /\ UNCHANGED frame
    /\ UNCHANGED <<now, last_rotation_time, display_disk_vs_ip_mode, current_time,
                   stats, soctemp, net, queried, flips, sampled, exit_reason>>

Clear == \E ok \in BOOLEAN : ClearWith(ok)

Next ==
    \/ InitOk
    \/ InitFail
    \/ RotationCheck
    \/ Sample
    \/ Draw
    \/ Sleep
    \/ Interrupt
    \/ Clear

Spec == Init /\ [][Next]_vars

----------------------------------------------------------------------------
(* get_stats on its own: one call, on any state of the temperature file *)

TempInit ==
    /\ pc = "call"
    /\ soctemp \in AllFiles
    /\ net \in Nets
    /\ now = 0
    /\ last_rotation_time = 0
    /\ display_disk_vs_ip_mode = DISK
    /\ current_time = 0
    /\ stats = NoStats
    /\ queried = <<>>
    /\ frame = BlankFrame
    /\ flips = 0
    /\ sampled = FALSE
    /\ clear_attempts = 0
    /\ exit_reason = "none"
    /\ printed = {}

CallGetStats ==
    /\ pc = "call"
    /\ pc' = "returned"
    /\ \E r \in Readings : stats' = get_stats(r, soctemp, net)
    /\ queried' = QueriedInterfaces(net)
    /\ sampled' = TRUE
    /\ printed' = IF ReadTemperaturePrints(soctemp)
                  THEN printed \cup {"Error reading soctemp"}
                  ELSE printed
    /\ UNCHANGED <<now, last_rotation_time, display_disk_vs_ip_mode, current_time,
                   soctemp, net, frame, flips, clear_attempts, exit_reason>>

TempNext == CallGetStats

TempSpec == TempInit /\ [][TempNext]_vars

----------------------------------------------------------------------------
(* The temperature field, under TempSpec *)

Sentinels == {NA, Err, ReadErr, NoFile}

\* An ASCII integer: an optional minus sign and at least one decimal digit.
IsIntegerText(s) ==
    LET body == IF s # <<>> /\ Head(s) = "-" THEN Tail(s) ELSE s
    IN  body # <<>> /\ \A i \in 1..Len(body) : body[i] \in AsciiDigits

\* Digits (after an optional minus sign), a point, exactly one digit, the unit.
IsOneDecimalCelsius(t) ==
    LET body == IF t # <<>> /\ Head(t) = "-" THEN Tail(t) ELSE t
    IN  \E i \in 2..Len(body) :
            /\ body[i] = "."
            /\ \A j \in 1..(i - 1) : body[j] \in AsciiDigits
            /\ Len(body) = i + 1 + Len(TempUnit)
            /\ body[i + 1] \in AsciiDigits
            /\ SubSeq(body, i + 2, Len(body)) = TempUnit

\* C3: get_stats maps a missing file to "NoFile", a file whose stripped
\* content is empty or not a number to "Err", a failing open or read to
\* "ReadErr", and never returns "N/A" as the temperature.
C3_SentinelPerFileState ==
    pc = "returned" =>
        /\ (~soctemp.exists => stats.temperature = NoFile)
        /\ (soctemp.exists /\ soctemp.io # "ok" => stats.temperature = ReadErr)
        /\ (soctemp.exists /\ soctemp.io = "ok" /\ ~IsIntegerText(Strip(soctemp.content))
                => stats.temperature = Err)
        /\ stats.temperature # NA

\* C4: every file content that is an integer of millidegrees, whitespace
\* around it ignored, is returned as a value with exactly one decimal digit
\* and the unit, never as a sentinel.
C4_IntegerTextIsFormatted ==
    pc = "returned" /\ soctemp.exists /\ soctemp.io = "ok"
                    /\ IsIntegerText(Strip(soctemp.content))
        => /\ stats.temperature \notin Sentinels
           /\ IsOneDecimalCelsius(stats.temperature)

----------------------------------------------------------------------------
(* The rotation timer, under Spec.  The clock reads 0 when line 36         *)
(* initialises last_rotation_time, so a clock reading is also the time     *)
(* elapsed since then.                                                     *)

\* C1 as stated: the mode is DISK or IP, and after the rotation check of any
\* iteration the number of flips is the number of whole rotation periods
\* elapsed since the timestamp was initialised.
C1_OneFlipPerElapsedPeriod ==
    /\ display_disk_vs_ip_mode \in {DISK, IP}
    /\ pc = "sample" => flips = current_time \div ROTATION_INTERVAL

\* C1 as amended: the mode is DISK or IP and has flipped flips times; every
\* flip used up a whole rotation period, so the flips never outnumber the
\* elapsed periods; and after the rotation check of an iteration less than
\* one period is left since the timestamp, so a period that had elapsed at
\* the check was answered by one flip.
C1_AtMostOneFlipPerElapsedPeriod ==
    /\ display_disk_vs_ip_mode \in {DISK, IP}
    /\ display_disk_vs_ip_mode = flips % 2
    /\ flips * ROTATION_INTERVAL <= last_rotation_time
    /\ last_rotation_time <= now
    /\ pc = "sample" =>
        /\ flips <= current_time \div ROTATION_INTERVAL
        /\ current_time - last_rotation_time \in 0..(ROTATION_INTERVAL - 1)

\* Two rotation periods have elapsed at a rotation check and the mode has
\* flipped once.
C1_Witness ==
    pc = "sample" /\ flips = 1 /\ current_time >= 2 * ROTATION_INTERVAL

\* C10: the rotation state changes only in the rotation check, which runs
\* once per iteration; there the mode flips exactly when last_rotation_time
\* is set to that iteration's current_time, and the new timestamp is at least
\* ROTATION_INTERVAL after the old one.
C10_RotationStateChangesOnlyInCheck ==
    [][(display_disk_vs_ip_mode' # display_disk_vs_ip_mode
            \/ last_rotation_time' # last_rotation_time
            \/ flips' # flips)
        => /\ pc = "check" /\ pc' = "sample"
           /\ display_disk_vs_ip_mode' = 1 - display_disk_vs_ip_mode
           /\ flips' = flips + 1
           /\ last_rotation_time' = current_time'
           /\ last_rotation_time' - last_rotation_time >= ROTATION_INTERVAL]_vars

\* The second flip has just been made.
C10_Witness ==
    pc = "sample" /\ flips = 2 /\ last_rotation_time = current_time

----------------------------------------------------------------------------
(* Failures while sampling, under Spec *)

RotationState == <<last_rotation_time, display_disk_vs_ip_mode, flips>>

\* What get_stats returned holds the sentinel of every field whose source
\* failed.
SentinelsSubstituted ==
    /\ (~soctemp.exists => stats.temperature = NoFile)
    /\ (soctemp.exists /\ soctemp.io # "ok" => stats.temperature = ReadErr)
    /\ (soctemp.exists /\ soctemp.io = "ok" /\ Strip(soctemp.content) = <<>>
            => stats.temperature = Err)
    /\ (~net[PRIMARY].ok /\ ~net[FALLBACK].ok => stats.ip_address = NA)

\* C2 as stated: whatever source fails during get_stats (the psutil queries
\* included), the loop goes on to draw, with the rotation state unchanged.
C2_NoSourceFailureEndsTheLoop ==
    [][pc = "sample" /\ exit_reason' # "interrupt"
        => pc' = "draw" /\ SentinelsSubstituted' /\ UNCHANGED RotationState]_vars

\* C2 as amended: a failure of the temperature file or of the interface
\* queries is replaced by the field's sentinel in the snapshot the loop goes
\* on to draw, with the rotation state unchanged; the only failure that ends
\* the loop during get_stats is a psutil query (CPU, memory, disk) raising.
C2_TemperatureAndIpFailuresAreSubstituted ==
    [][pc = "sample" /\ exit_reason' # "interrupt"
        => /\ UNCHANGED RotationState
           /\ \/ pc' = "draw" /\ SentinelsSubstituted'
              \/ pc' = "done" /\ exit_reason' = "psutil_error"]_vars

\* get_stats has returned a snapshot although the temperature file is missing
\* and neither interface answered.
C2_Witness ==
    /\ pc = "draw"
    /\ ~soctemp.exists /\ soctemp.io = "ok"
    /\ ~net[PRIMARY].ok /\ ~net[FALLBACK].ok
    /\ stats.temperature = NoFile /\ stats.ip_address = NA

Phase(p) ==
    IF p = "init" THEN "INITIALIZING"
    ELSE IF p \in LoopPcs THEN "RUNNING" ELSE "TERMINATED"

\* C9 as stated: the process leaves RUNNING only for TERMINATED and only
\* because of an interrupt.
C9_OnlyAnInterruptEndsTheLoop ==
    [][Phase(pc) = "RUNNING" /\ Phase(pc') # "RUNNING"
        => Phase(pc') = "TERMINATED" /\ exit_reason' = "interrupt"]_vars

\* C9 as amended: the phases are passed in the order INITIALIZING, RUNNING,
\* TERMINATED, and RUNNING is left only because of an interrupt or of an
\* exception nothing in main catches: a psutil query of get_stats, or a draw
\* call or bus write of the canvas block.
C9_InterruptOrUncaughtErrorEndsTheLoop ==
    [][/\ pc' \in {"init", "clear", "done"} \cup LoopPcs
       /\ Phase(pc') = "INITIALIZING" => Phase(pc) = "INITIALIZING"
       /\ Phase(pc) = "TERMINATED" => Phase(pc') = "TERMINATED"
       /\ Phase(pc) = "RUNNING" /\ Phase(pc') # "RUNNING"
            => exit_reason' \in {"interrupt", "psutil_error", "display_error"}]_vars

\* The loop has ended on a failed draw.
C9_Witness ==
    pc = "done" /\ exit_reason = "display_error" /\ sampled

----------------------------------------------------------------------------
(* The address and the frame, under Spec *)

PrimaryText == <<"1", "9", "2", ".", "1", "6", "8", ".", "1", ".", "1", "0">>
FallbackText == <<"1", "0", ".", "0", ".", "0", ".", "5">>

\* C5: end1 is queried first; wlan0 is queried exactly when end1 failed; the
\* address is "N/A" exactly when both failed and is otherwise the address of
\* the first interface that answered.
C5_FallbackOrder ==
    pc = "draw" =>
        /\ queried # <<>> /\ queried[1] = PRIMARY
        /\ (queried = <<PRIMARY, FALLBACK>>) <=> ~net[PRIMARY].ok
        /\ (queried = <<PRIMARY>>) <=> net[PRIMARY].ok
        /\ (stats.ip_address = NA) <=> (~net[PRIMARY].ok /\ ~net[FALLBACK].ok)
        /\ net[PRIMARY].ok => stats.ip_address = PrimaryText
        /\ ~net[PRIMARY].ok /\ net[FALLBACK].ok => stats.ip_address = FallbackText

\* end1 failed and wlan0 answered.
C5_Witness ==
    /\ pc = "draw"
    /\ ~net[PRIMARY].ok /\ net[FALLBACK].ok
    /\ queried = <<PRIMARY, FALLBACK>>
    /\ stats.ip_address = FallbackText

ExpectedCpuLine(s) ==
    IF s.cpu_percent = <<234, 10>>
    THEN <<"C", "P", "U", ":", " ", "2", "3", ".", "4", "%">>
    ELSE <<"C", "P", "U", ":", " ", "1", "0", "0", ".", "0", "%">>

ExpectedRamLine(s) ==
    IF s.mem_used_mb = <<524288, 1024>>
    THEN <<"R", "A", "M", ":", " ", "5", "1", "2", "/", "2", "0", "4", "8", "M", "B">>
    ELSE <<"R", "A", "M", ":", " ", "5", "1", "4", "/", "2", "0", "4", "8", "M", "B">>

ExpectedDskLine(s) ==
    IF s.disk_percent = <<612, 10>>
    THEN <<"D", "S", "K", ":", " ", "6", "1", ".", "2", "%">>
    ELSE <<"D", "S", "K", ":", " ", "7", ".", "5", "%">>

\* C6: the frame on the display after an iteration's draw has four lines,
\* CPU, RAM, temperature, and the disk line in DISK mode or the address line
\* in IP mode, the mode being that iteration's and the values that
\* iteration's snapshot.
C6_FrameOfFourLines ==
    pc = "sleep" =>
        /\ Len(frame) = 4
        /\ frame[1] = ExpectedCpuLine(stats)
        /\ frame[2] = ExpectedRamLine(stats)
        /\ frame[3] = <<"T", "M", "P", ":", " ">> \o stats.temperature
        /\ display_disk_vs_ip_mode = DISK => frame[4] = ExpectedDskLine(stats)
        /\ display_disk_vs_ip_mode = IP
            => frame[4] = <<"I", "P", ":", " ">> \o stats.ip_address

\* A frame drawn in IP mode, in the iteration whose rotation check flipped
\* the mode.
C6_Witness ==
    /\ pc = "sleep"
    /\ display_disk_vs_ip_mode = IP /\ last_rotation_time = current_time
    /\ frame[4] = <<"I", "P", ":", " ">> \o PrimaryText

----------------------------------------------------------------------------
(* Bootstrap and shutdown, under Spec *)

\* C7: after a failed construction of the bus or the display the failure is
\* printed and the process is over: nothing was sampled or drawn, the
\* rotation state is as initialised, and no clear was attempted.
C7_InitFailureSkipsTheLoop ==
    exit_reason = "init_failure" =>
        /\ pc = "done"
        /\ "Error initializing OLED" \in printed
        /\ ~sampled /\ stats = NoStats
        /\ frame = BlankFrame
        /\ RotationState = <<0, DISK, 0>>
        /\ clear_attempts = 0

C7_Witness ==
    exit_reason = "init_failure" /\ pc = "done"

\* C8: after an interrupt the process is in the handler or over, never in
\* the loop again; the handler makes one attempt to clear the display and the
\* process is over after it, with the display blank or the failure printed.
C8_InterruptClearsOnceAndExits ==
    exit_reason = "interrupt" =>
        /\ pc \in {"clear", "done"}
        /\ "Exiting stats display." \in printed
        /\ pc = "clear" => clear_attempts = 0
        /\ pc = "done" =>
            /\ clear_attempts = 1
            /\ frame = BlankFrame \/ "Error clearing display on exit" \in printed

\* An interrupt after a frame was drawn, and a clear that failed.
C8_Witness ==
    /\ pc = "done" /\ exit_reason = "interrupt"
    /\ clear_attempts = 1
    /\ frame # BlankFrame
    /\ "Error clearing display on exit" \in printed

====
